---- MODULE Spec2Model ----
(***************************************************************************)
(* Model of the cell-cycling GUI core: the Experiment object of            *)
(* core/experiment.py (file registry, ordering, clean flag, manual-hide    *)
(* list, cached cycle list and cell-cycling collection) and the ordering   *)
(* editor of the file-manager page.                                        *)
(*                                                                         *)
(* The echemsuite FileManager / CellCycling classes that Experiment calls  *)
(* (parse, suggest_ordering, get_cycles, hide) are not part of the         *)
(* sources; they are modelled from sections 4.1, 4.3 and 4.4 of the        *)
(* specification.                                                          *)
(***************************************************************************)
EXTENDS Integers, Sequences, FiniteSets, TLC

\* ------------------------------------------------------------------ bounds

\* largest number of slots of an ordering handed to the ordering setter
MaxSlots == 2
\* largest length of the manual-hide list (hide_cycle appends without limit)
MaxHide == 2
\* largest cycle id / half-cycle id typed in the ordering editor
MaxCycleId == 2
MaxPosId == 1
\* largest number of cycles of an experiment put in a container
MaxCycles == 3
\* largest value of the skipped-files counter (the page adds without limit)
MaxSkipped == 3
\* largest number of series of the comparison buffer
MaxSeries == 3
\* largest number of plot points selected for one press of the hide button, and
\* of hide_cycle calls one container receives
MaxPoints == 2

\* ------------------------------------------------------------ the files

\* The half-cycle files a user can upload.  A HalfCycleRecord is immutable
\* once parsed, so kind, timestamp and capacity are functions of the name.
Files == {"a", "b", "c", "d"}

Kind(f) == IF f \in {"a", "c"} THEN "charge" ELSE "discharge"

Timestamp(f) == CASE f = "a" -> 0 [] f = "b" -> 1 [] f = "c" -> 2 [] f = "d" -> 3

\* capacities: a/b gives 150 %, c/b gives 100 %, a/d 50 %, c/d 33 %
Capacity(f) == CASE f = "a" -> 2 [] f = "b" -> 3 [] f = "c" -> 3 [] f = "d" -> 1

None == "None"

\* content of an uploaded byte stream: parseable data, or an empty file
Contents == {"data", "empty"}
Absent == "absent"

\* ------------------------------------------------------- sequence helpers

RECURSIVE Flatten(_)
Flatten(ss) == IF ss = <<>> THEN <<>> ELSE Head(ss) \o Flatten(Tail(ss))

Range(s) == {s[i] : i \in DOMAIN s}

Count(s, x) == Cardinality({i \in DOMAIN s : s[i] = x})

NoDuplicates(s) == \A i, j \in DOMAIN s : s[i] = s[j] => i = j

\* the elements of a finite set of files in ascending timestamp order
RECURSIVE SortByTimestamp(_)
SortByTimestamp(S) ==
    IF S = {} THEN <<>>
    ELSE LET first == CHOOSE f \in S : \A g \in S : Timestamp(f) <= Timestamp(g)
         IN  <<first>> \o SortByTimestamp(S \ {first})

\* ------------------------------------- FileManager (echemsuite, from spec)

\* FileManager.parse: a file that fails to parse is skipped, the others are
\* registered under their filename
parse(bs) == {f \in Files : bs[f] = "data"}

\* FileManager.suggest_ordering: records sorted by timestamp; a new slot is
\* started when a charge arrives and the current slot already holds one, or
\* when two consecutive records share the same kind
RECURSIVE SuggestFrom(_, _)
SuggestFrom(recs, acc) ==
    IF recs = <<>> THEN acc
    ELSE LET r == Head(recs) IN
         IF acc = <<>> THEN SuggestFrom(Tail(recs), << <<r>> >>)
         ELSE LET cur  == acc[Len(acc)]
                  prev == cur[Len(cur)]
              IN  IF \/ Kind(r) = "charge" /\ \E i \in DOMAIN cur : Kind(cur[i]) = "charge"
                     \/ Kind(r) = Kind(prev)
                  THEN SuggestFrom(Tail(recs), Append(acc, <<r>>))
                  ELSE SuggestFrom(Tail(recs), [acc EXCEPT ![Len(acc)] = Append(cur, r)])

suggest_ordering(hc) == SuggestFrom(SortByTimestamp(hc), <<>>)

\* ------------------------------------------ CycleAssembler.build (from spec)

OfKind(slot, k) == SelectSeq(slot, LAMBDA f : Kind(f) = k)

Side(slot, k) == IF OfKind(slot, k) = <<>> THEN None ELSE OfKind(slot, k)[1]

\* one Cycle per slot, numbered by output index
Assemble(ord) ==
    [i \in 1..Len(ord) |->
        [number |-> i - 1, charge |-> Side(ord[i], "charge"),
         discharge |-> Side(ord[i], "discharge")]]

\* coulombic efficiency (discharge capacity / charge capacity) >= 100 %
NonPhysical(cy) == Capacity(cy.discharge) * 100 >= 100 * Capacity(cy.charge)

\* the clean post-filter keeps a cycle that has both sides and efficiency < 100 %
Keep(cy) == cy.charge # None /\ cy.discharge # None /\ ~NonPhysical(cy)

CleanFilter(cys) == SelectSeq(cys, Keep)

\* a build that keeps the slot index as number
RenumberNot(cys) == cys

\* surviving cycles are renumbered sequentially from 0
Renumber(cys) == [i \in 1..Len(cys) |-> [cys[i] EXCEPT !.number = i - 1]]

\* a build that takes the first file of each kind, whatever the slot holds
AmbiguousNever(slot) == FALSE

\* a slot with two files of the same kind
Ambiguous(slot) == Len(OfKind(slot, "charge")) > 1 \/ Len(OfKind(slot, "discharge")) > 1

\* FileManager.get_cycles(ordering, clean): the cycle list, or the error raised
get_cycles(hc, ord, cl) ==
    IF \E i \in DOMAIN ord : \E j \in DOMAIN ord[i] : ord[i][j] \notin hc
    THEN [ok |-> FALSE, err |-> "LookupError", cycles |-> <<>>]
    ELSE IF \E i \in DOMAIN ord : Ambiguous(ord[i])
    THEN [ok |-> FALSE, err |-> "AmbiguousSlot", cycles |-> <<>>]
    ELSE [ok |-> TRUE, err |-> "none",
          cycles |-> IF cl THEN Renumber(CleanFilter(Assemble(ord))) ELSE Assemble(ord)]

\* CellCycling.hide(numbers): numbers outside the range are ignored
Hide(cys, mh) == {n \in Range(mh) : n \in 0..(Len(cys) - 1)}

\* ------------------------------------------------------------- the state

VARIABLES
    bytestreams,   \* _manager.bytestreams: filename -> content (Absent: no key)
    halfcycles,    \* keys of _manager._halfcycles, the half-cycle registry
    ordering,      \* Experiment._ordering: sequence of slots of filenames
    clean,         \* Experiment._clean
    manual_hide,   \* Experiment._manual_hide: list of cycle numbers
    cycles,        \* Experiment._cycles
    hidden,        \* numbers of the hidden cycles of Experiment._cellcycling
    lastOp,        \* the operation performed last
    err,           \* how it ended: "none", or the error raised / warning shown
    printed,       \* the filename named by the message of a MissingFile error
    warned,        \* the cycle ids named by a GapInSequence warning
    input,         \* what the argument of the last ordering edit looked like
    skipped_files, \* Experiment._skipped_files
    status,        \* the experiments of the ProgramStatus a container draws from
    experiments,   \* ExperimentContainer._experiments: sequence of experiment ids
    query,         \* the last call on the container or the plotting layer
    session        \* st.session_state: what the pages keep between two runs

vars == <<bytestreams, halfcycles, ordering, clean, manual_hide, cycles, hidden,
          lastOp, err, printed, warned, input, skipped_files, status, experiments,
          query, session>>

\* the state of the container and of the plotting layer
containerVars == <<status, experiments, query>>

NoInput == [missing |-> {}, unknown |-> FALSE, gaps |-> {}, collide |-> FALSE]

\* files uploaded together: every file present or not, parseable or empty
Uploads == {bs \in [Files -> Contents \cup {Absent}] : \E f \in Files : bs[f] # Absent}

\* uploads in which every file parses
DataUploads == {bs \in Uploads : \A f \in Files : bs[f] # "empty"}

Keys(bs) == {f \in Files : bs[f] # Absent}

\* a rebuild that does not hide the manually hidden cycles again
update_without_hide ==
    LET r == get_cycles(halfcycles', ordering', clean') IN
    IF r.ok
    THEN /\ cycles' = r.cycles
         /\ hidden' = {}
         /\ err' = "none"
    ELSE /\ UNCHANGED <<cycles, hidden>>
         /\ err' = r.err

\* a rebuild in which hiding a number that is out of range raises
update_hide_strict ==
    LET r == get_cycles(halfcycles', ordering', clean') IN
    IF r.ok
    THEN /\ cycles' = r.cycles
         /\ IF \A i \in DOMAIN manual_hide' : manual_hide'[i] \in 0..(Len(r.cycles) - 1)
            THEN hidden' = Hide(r.cycles, manual_hide') /\ err' = "none"
            ELSE hidden' = {} /\ err' = "IndexError"
    ELSE /\ UNCHANGED <<cycles, hidden>>
         /\ err' = r.err

\* Experiment._update_cycles_based_objects, run on the new values of the
\* registry, ordering, clean flag and manual-hide list
update_cycles_based_objects ==
    LET r == get_cycles(halfcycles', ordering', clean') IN
    IF r.ok
    THEN /\ cycles' = r.cycles
         /\ hidden' = Hide(r.cycles, manual_hide')
         /\ err' = "none"
    ELSE /\ UNCHANGED <<cycles, hidden>>
         /\ err' = r.err

\* Experiment.__init__ succeeds on these uploads (no exception in the build)
Constructs(bs) == get_cycles(parse(bs), suggest_ordering(parse(bs)), FALSE).ok

\* Experiment.__init__ on the uploaded files bs
construct(bs) ==
        /\ Constructs(bs)
        /\ bytestreams = bs
        /\ halfcycles = parse(bs)
        /\ ordering = suggest_ordering(parse(bs))
        /\ clean = FALSE
        /\ manual_hide = <<>>
        /\ cycles = get_cycles(parse(bs), suggest_ordering(parse(bs)), FALSE).cycles
        /\ hidden = {}
        /\ lastOp = "init"
        /\ err = "none"
        /\ printed = None
        /\ warned = <<>>
        /\ input = NoInput

\* Experiment.__iadd__: the byte streams of the source experiment are added
\* to the local buffer, the buffer is parsed again and the cycles rebuilt
iadd(src) ==
    /\ Constructs(src)
    /\ bytestreams' = [f \in Files |-> IF src[f] # Absent THEN src[f] ELSE bytestreams[f]]
    /\ halfcycles' = parse(bytestreams')
    /\ UNCHANGED <<ordering, clean, manual_hide>>
    /\ update_cycles_based_objects
    /\ lastOp' = "iadd"
    /\ printed' = None /\ warned' = <<>> /\ input' = NoInput

\* a remove_file that forgets the rebuild
remove_file_no_rebuild(filename) ==
    /\ IF bytestreams[filename] # Absent
       THEN /\ bytestreams' = [bytestreams EXCEPT ![filename] = Absent]
            /\ halfcycles' = parse(bytestreams')
            /\ ordering' = suggest_ordering(halfcycles')
            /\ UNCHANGED <<clean, manual_hide, cycles, hidden>>
            /\ err' = "none"
       ELSE /\ err' = "ValueError"
            /\ UNCHANGED <<bytestreams, halfcycles, ordering, clean, manual_hide,
                           cycles, hidden>>
    /\ lastOp' = "remove_file"
    /\ printed' = None /\ warned' = <<>> /\ input' = NoInput

\* Experiment.remove_file
remove_file(filename) ==
    /\ IF bytestreams[filename] # Absent
       THEN /\ bytestreams' = [bytestreams EXCEPT ![filename] = Absent]
            /\ halfcycles' = parse(bytestreams')
            /\ ordering' = suggest_ordering(halfcycles')
            /\ UNCHANGED <<clean, manual_hide>>
            /\ update_cycles_based_objects
       ELSE /\ err' = "ValueError"
            /\ UNCHANGED <<bytestreams, halfcycles, ordering, clean, manual_hide,
                           cycles, hidden>>
    /\ lastOp' = "remove_file"
    /\ printed' = None /\ warned' = <<>> /\ input' = NoInput

\* Experiment.append_file
append_file(filename, bytestream, autoparse) ==
    /\ bytestreams' = [bytestreams EXCEPT ![filename] = bytestream]
    /\ UNCHANGED <<ordering, clean, manual_hide>>
    /\ IF autoparse
       THEN /\ halfcycles' = parse(bytestreams')
            /\ update_cycles_based_objects
       ELSE /\ UNCHANGED <<halfcycles, cycles, hidden>>
            /\ err' = "none"
    /\ lastOp' = "append_file"
    /\ printed' = None /\ warned' = <<>> /\ input' = NoInput

\* Experiment.hide_cycle
hide_cycle(index) ==
    /\ Len(manual_hide) < MaxHide
    /\ manual_hide' = Append(manual_hide, index)
    /\ UNCHANGED <<bytestreams, halfcycles, ordering, clean>>
    /\ update_cycles_based_objects
    /\ lastOp' = "hide_cycle"
    /\ printed' = None /\ warned' = <<>> /\ input' = NoInput

\* an unhide that takes back the last hide only
unhide_last ==
    /\ manual_hide' = SubSeq(manual_hide, 1, Len(manual_hide) - 1)
    /\ UNCHANGED <<bytestreams, halfcycles, ordering, clean>>
    /\ update_cycles_based_objects
    /\ lastOp' = "unhide_all_cycles"
    /\ printed' = None /\ warned' = <<>> /\ input' = NoInput

\* Experiment.unhide_all_cycles
unhide_all_cycles ==
    /\ manual_hide' = <<>>
    /\ UNCHANGED <<bytestreams, halfcycles, ordering, clean>>
    /\ update_cycles_based_objects
    /\ lastOp' = "unhide_all_cycles"
    /\ printed' = None /\ warned' = <<>> /\ input' = NoInput

\* a clean setter that forgets the rebuild
clean_setter_no_rebuild(value) ==
    /\ clean' = value
    /\ UNCHANGED <<bytestreams, halfcycles, ordering, manual_hide, cycles, hidden>>
    /\ err' = "none"
    /\ lastOp' = "clean"
    /\ printed' = None /\ warned' = <<>> /\ input' = NoInput

\* Experiment.clean (setter)
clean_setter(value) ==
    /\ clean' = value
    /\ UNCHANGED <<bytestreams, halfcycles, ordering, manual_hide>>
    /\ update_cycles_based_objects
    /\ lastOp' = "clean"
    /\ printed' = None /\ warned' = <<>> /\ input' = NoInput

\* ------------------------------------------------------ Experiment.ordering

\* the first loop of the setter fails on a registered file that is not in
\* the flattened list; the second on a listed file that is not registered
validate_skips_missing(hc, new_ordering) ==
    IF \E i \in DOMAIN Flatten(new_ordering) : Flatten(new_ordering)[i] \notin hc
    THEN "UnknownFile" ELSE "none"

validate_skips_unknown(hc, new_ordering) ==
    IF \E key \in hc : Count(Flatten(new_ordering), key) = 0
    THEN "MissingFile" ELSE "none"

validate_ordering(hc, new_ordering) ==
    IF \E key \in hc : Count(Flatten(new_ordering), key) = 0
    THEN "MissingFile"
    ELSE IF \E i \in DOMAIN Flatten(new_ordering) : Flatten(new_ordering)[i] \notin hc
    THEN "UnknownFile"
    ELSE "none"

\* the filenames an ordering mentions
ArgFiles(o) == UNION {Range(o[i]) : i \in DOMAIN o}

\* what the argument of an ordering assignment looks like
SetterInput(new_ordering) ==
    [NoInput EXCEPT !.missing = halfcycles \ ArgFiles(new_ordering),
                    !.unknown = ArgFiles(new_ordering) \ halfcycles # {}]

\* a setter that stores the ordering before it validates it
ordering_setter_store_first(new_ordering) ==
    /\ UNCHANGED <<bytestreams, halfcycles, clean, manual_hide>>
    /\ ordering' = new_ordering
    /\ IF validate_ordering(halfcycles, new_ordering) = "none"
       THEN update_cycles_based_objects /\ printed' = None
       ELSE /\ err' = validate_ordering(halfcycles, new_ordering)
            /\ printed' = None
            /\ UNCHANGED <<cycles, hidden>>

\* Experiment.ordering (setter).  Both failures are a bare RuntimeError; the
\* first is preceded by a message that names the missing key.
ordering_setter(new_ordering) ==
    /\ UNCHANGED <<bytestreams, halfcycles, clean, manual_hide>>
    /\ CASE validate_ordering(halfcycles, new_ordering) = "MissingFile" ->
              /\ err' = "MissingFile"
              /\ printed' \in {key \in halfcycles : Count(Flatten(new_ordering), key) = 0}
              /\ UNCHANGED <<ordering, cycles, hidden>>
         [] validate_ordering(halfcycles, new_ordering) = "UnknownFile" ->
              /\ err' = "UnknownFile"
              /\ printed' = None
              /\ UNCHANGED <<ordering, cycles, hidden>>
         [] OTHER ->
              /\ ordering' = new_ordering
              /\ update_cycles_based_objects
              /\ printed' = None

\* the orderings handed to the setter: up to MaxSlots slots of one name, or of
\* two names in arrival order
SlotInputs ==
    {<<f>> : f \in Files}
    \cup {p \in Files \X Files : Timestamp(p[1]) < Timestamp(p[2])}

\* no name is listed twice
OrderingInputs ==
    {o \in UNION {[1..n -> SlotInputs] : n \in 1..MaxSlots} : NoDuplicates(Flatten(o))}

\* an assignment  experiment.ordering = new_ordering
assign_ordering(new_ordering) ==
    /\ ordering_setter(new_ordering)
    /\ lastOp' = "ordering"
    /\ warned' = <<>>
    /\ input' = SetterInput(new_ordering)

\* ------------------------------------------- the ordering editor (Edit tab)

Max(S) == CHOOSE x \in S : \A y \in S : y <= x
Min(S) == CHOOSE x \in S : \A y \in S : x <= y

\* the values the user can type in a Cycle ID / Halfcycle order widget
Grid == (0..MaxCycleId) \X (0..MaxPosId)

\* the (cycle, halfcycle) pair a row of the table shows before any edit
DefaultEntry(ord, f) ==
    LET i == CHOOSE i \in DOMAIN ord : f \in Range(ord[i])
        j == CHOOSE j \in DOMAIN ord[i] : ord[i][j] = f
    IN  <<i - 1, j - 1>>

\* ordering_buffer after the table has been drawn: the user has changed the
\* widgets of at most two rows, the other rows show the current ordering
EditorInputs(ord) ==
    LET rows == Range(Flatten(ord)) IN
    {[f \in rows |-> DefaultEntry(ord, f)]}
    \cup UNION {{[f \in rows |-> IF f = r1 THEN p[1] ELSE IF f = r2 THEN p[2]
                                  ELSE DefaultEntry(ord, f)] : p \in Grid \X Grid}
                : r1 \in rows, r2 \in rows}

\* max_cycle: the largest cycle id selected (0 when the table is empty)
max_cycle(rows, entries) == Max({0} \cup {entries[rows[i]][1] : i \in DOMAIN rows})

EmptyDict == [k \in {} |-> None]

\* a fill loop that overwrites without noticing the repetition
RECURSIVE FillBufferNoRepetition(_, _, _)
FillBufferNoRepetition(rows, entries, acc) ==
    IF rows = <<>> THEN acc
    ELSE LET f  == Head(rows)
             c  == entries[f][1]
             h  == entries[f][2]
             d  == acc.buffer[c]
             d2 == [k \in DOMAIN d \cup {h} |-> IF k = h THEN f ELSE d[k]]
         IN  FillBufferNoRepetition(Tail(rows), entries,
                        [buffer |-> [acc.buffer EXCEPT ![c] = d2],
                         repetition |-> FALSE])

\* the loop that fills cycle_based_buffer from ordering_buffer: a later file
\* overwrites an earlier one at the same (cycle, halfcycle) and sets repetition
RECURSIVE FillBuffer(_, _, _)
FillBuffer(rows, entries, acc) ==
    IF rows = <<>> THEN acc
    ELSE LET f  == Head(rows)
             c  == entries[f][1]
             h  == entries[f][2]
             d  == acc.buffer[c]
             d2 == [k \in DOMAIN d \cup {h} |-> IF k = h THEN f ELSE d[k]]
         IN  FillBuffer(Tail(rows), entries,
                        [buffer |-> [acc.buffer EXCEPT ![c] = d2],
                         repetition |-> acc.repetition \/ h \in DOMAIN d])

cycle_based_buffer(rows, entries) ==
    FillBuffer(rows, entries,
               [buffer |-> [c \in 0..max_cycle(rows, entries) |-> EmptyDict],
                repetition |-> FALSE])

\* the indices of the empty dictionaries, in ascending order
RECURSIVE MissingFrom(_, _)
MissingFrom(buffer, index) ==
    IF index \notin DOMAIN buffer THEN <<>>
    ELSE (IF DOMAIN buffer[index] = {} THEN <<index>> ELSE <<>>)
         \o MissingFrom(buffer, index + 1)

\* the files of one dictionary in order of halfcycle index (holes skipped)
RECURSIVE SlotOf(_)
SlotOf(d) ==
    IF DOMAIN d = {} THEN <<>>
    ELSE LET k == Min(DOMAIN d)
         IN  <<d[k]>> \o SlotOf([j \in DOMAIN d \ {k} |-> d[j]])

\* an inversion over range(max_cycle): the last cycle is left out
new_ordering_short(buffer) == [c \in 1..Max(DOMAIN buffer) |-> SlotOf(buffer[c - 1])]

\* new_ordering: one slot for every cycle id of range(max_cycle + 1)
new_ordering_of(buffer) == [c \in 1..(Max(DOMAIN buffer) + 1) |-> SlotOf(buffer[c - 1])]

\* what the edited table looks like: the cycle ids nobody selected, and
\* whether two files were given the same (cycle, halfcycle) pair
EditorInput(rows, entries) ==
    [NoInput EXCEPT
        !.gaps = {c \in 0..max_cycle(rows, entries) :
                    \A i \in DOMAIN rows : entries[rows[i]][1] # c},
        !.collide = \E i, j \in DOMAIN rows : i # j /\ entries[rows[i]] = entries[rows[j]]]

\* the table can be drawn: one widget key per filename, and every row has a
\* registered half-cycle to show
EditorShown == NoDuplicates(Flatten(ordering)) /\ Range(Flatten(ordering)) \subseteq halfcycles

\* one run of the editor with the typed values; joinFails tells whether the
\* list of missing ids is joined as numbers (file_manager.py) or as strings
editor_run(entries, joinFails) ==
    LET rows == Flatten(ordering)
        cbb  == cycle_based_buffer(rows, entries)
        missing == MissingFrom(cbb.buffer, 0)
    IN  /\ EditorShown
        /\ input' = EditorInput(rows, entries)
        /\ IF missing # <<>>
           THEN /\ err' = IF joinFails THEN "TypeError" ELSE "GapInSequence"
                /\ warned' = IF joinFails THEN <<>> ELSE missing
                /\ printed' = None
                /\ UNCHANGED <<bytestreams, halfcycles, ordering, clean, manual_hide,
                               cycles, hidden>>
           ELSE IF cbb.repetition
           THEN /\ err' = "DuplicatePosition"
                /\ warned' = <<>>
                /\ printed' = None
                /\ UNCHANGED <<bytestreams, halfcycles, ordering, clean, manual_hide,
                               cycles, hidden>>
           ELSE IF new_ordering_of(cbb.buffer) # ordering
           THEN /\ ordering_setter(new_ordering_of(cbb.buffer))
                /\ warned' = <<>>
           ELSE /\ err' = "none"
                /\ warned' = <<>>
                /\ printed' = None
                /\ UNCHANGED <<bytestreams, halfcycles, ordering, clean, manual_hide,
                               cycles, hidden>>

\* the editor of the file-manager page
edit_ordering(entries) ==
    /\ editor_run(entries, FALSE)
    /\ lastOp' = "edit"

\* the editor of file_manager.py
edit_ordering_legacy(entries) ==
    /\ editor_run(entries, TRUE)
    /\ lastOp' = "edit_legacy"

\* ------------------------------------------------------ ExperimentContainer

\* the Experiment objects of the ProgramStatus, named experiment_<id> when built
ExpIds == {1, 2, 3}

DefaultName(id) ==
    CASE id = 1 -> "experiment_1" [] id = 2 -> "experiment_2" [] id = 3 -> "experiment_3"

ExpNames == {DefaultName(id) : id \in ExpIds}

NoQuery == [op |-> "none", arg |-> None, err |-> "none", out |-> <<>>]

\* CellCycling.numbers of a collection of n cycles: sequential from 0
numbers(n) == [i \in 1..n |-> i - 1]

\* the hidden cycles of the collection of an experiment of the status
hidden_of(e) == Hide(numbers(e.ncycles), e.manual_hide)

\* CellCycling.numbers of an experiment of the status: the numbers of its
\* visible cycles, the ones its series are computed over
visible_numbers(e) == SelectSeq(numbers(e.ncycles), LAMBDA n : n \notin hidden_of(e))

\* ExperimentContainer.get_experiment_names
get_experiment_names(exps) == [i \in DOMAIN exps |-> status[exps[i]].name]

\* ExperimentContainer.max_cycles_numbers: the last number of every member;
\* _numbers[-1] raises IndexError on a member without a visible cycle
max_cycles_numbers(exps) ==
    IF \E i \in DOMAIN exps : visible_numbers(status[exps[i]]) = <<>>
    THEN [ok |-> FALSE, numbers |-> <<>>]
    ELSE [ok |-> TRUE,
          numbers |-> [i \in DOMAIN exps |->
                         visible_numbers(status[exps[i]])[Len(visible_numbers(status[exps[i]]))]]]

\* cumulative_sum of ExperimentContainer.hide_cycle
cumulative_sum(nums) ==
    LET cs[i \in DOMAIN nums] == IF i = 1 THEN nums[1] ELSE cs[i - 1] + nums[i] + 1
    IN  [i \in DOMAIN nums |-> cs[i]]

\* the number of entries of all the manual-hide lists
TotalHides(st) ==
    LET sum[S \in SUBSET ExpIds] ==
            IF S = {} THEN 0
            ELSE LET id == CHOOSE id \in S : TRUE
                 IN  Len(st[id].manual_hide) + sum[S \ {id}]
    IN  sum[ExpIds]

\* ExperimentContainer.add_experiment: the test is on the object, not on its name
add_experiment(id) ==
    /\ UNCHANGED status
    /\ IF \A i \in DOMAIN experiments : experiments[i] # id
       THEN /\ experiments' = Append(experiments, id)
            /\ query' = [op |-> "add_experiment", arg |-> status[id].name,
                         err |-> "none", out |-> <<>>]
       ELSE /\ UNCHANGED experiments
            /\ query' = [op |-> "add_experiment", arg |-> status[id].name,
                         err |-> "RuntimeError", out |-> <<>>]

\* a removal that empties the container
remove_every_experiment(name) ==
    /\ UNCHANGED status
    /\ experiments' = <<>>
    /\ query' = [op |-> "remove_experiment", arg |-> name, err |-> "none", out |-> <<>>]

\* ExperimentContainer.remove_experiment: deletes the first member of that name
remove_experiment(name) ==
    LET names == get_experiment_names(experiments) IN
    /\ UNCHANGED status
    /\ IF \E i \in DOMAIN names : names[i] = name
       THEN LET id == Min({i \in DOMAIN names : names[i] = name})
            IN  /\ experiments' = SubSeq(experiments, 1, id - 1)
                                    \o SubSeq(experiments, id + 1, Len(experiments))
                /\ query' = [op |-> "remove_experiment", arg |-> name,
                             err |-> "none", out |-> <<>>]
       ELSE /\ UNCHANGED experiments
            /\ query' = [op |-> "remove_experiment", arg |-> name,
                         err |-> "ValueError", out |-> <<>>]

\* Experiment.name (setter) as the file-manager page calls it: any non-empty
\* string is taken, whatever the names of the other experiments
rename(id, value) ==
    /\ status' = [status EXCEPT ![id].name = value]
    /\ UNCHANGED experiments
    /\ query' = [op |-> "rename", arg |-> value, err |-> "none", out |-> <<>>]

\* ExperimentContainer.hide_cycle(cumulative_id); Experiment.hide_cycle of the
\* member found appends the local number to its manual-hide list
container_hide_cycle(cumulative_id) ==
    LET r     == max_cycles_numbers(experiments)
        cs    == cumulative_sum(r.numbers)
        found == {i \in DOMAIN cs : cumulative_id <= cs[i]}
    IN  /\ TotalHides(status) < MaxHide
        /\ UNCHANGED experiments
        /\ IF ~r.ok
           THEN /\ UNCHANGED status
                /\ query' = [op |-> "hide_cycle", arg |-> cumulative_id,
                             err |-> "IndexError", out |-> <<>>]
           ELSE IF found = {}
           THEN /\ UNCHANGED status
                /\ query' = [op |-> "hide_cycle", arg |-> cumulative_id,
                             err |-> "TypeError", out |-> <<>>]
           ELSE LET i == Min(found)
                    cycle_id == IF i = 1 THEN cumulative_id
                                ELSE cumulative_id - cs[i - 1] - 1
                IN  /\ status' = [status EXCEPT ![experiments[i]].manual_hide =
                                                    Append(@, cycle_id)]
                    /\ query' = [op |-> "hide_cycle", arg |-> cumulative_id,
                                 err |-> "none", out |-> <<>>]

\* the cycle_index lists of the plot loop over one container, one after the
\* other; max_cycles_numbers is read for every member but the first
cycle_index(exps) ==
    LET r == max_cycles_numbers(exps)
        offset[i \in DOMAIN exps] ==
            IF i = 1 THEN 0 ELSE offset[i - 1] + r.numbers[i - 1] + 1
    IN  IF Len(exps) > 1 /\ ~r.ok
        THEN [ok |-> FALSE, out |-> <<>>]
        ELSE [ok |-> TRUE,
              out |-> Flatten([i \in DOMAIN exps |->
                         [k \in DOMAIN visible_numbers(status[exps[i]]) |->
                            visible_numbers(status[exps[i]])[k] + offset[i]]])]

\* the plot of the container
plot ==
    /\ UNCHANGED <<status, experiments>>
    /\ query' = [op |-> "plot", arg |-> None,
                 err |-> IF cycle_index(experiments).ok THEN "none" ELSE "IndexError",
                 out |-> cycle_index(experiments).out]

\* ------------------------------------------------------- the plotting layer

\* the series of the y-axis selector
Y_OPTIONS ==
    {"Capacity retention", "Columbic efficiency", "Energy efficiency",
     "Voltaic Efficiency", "Total energy - Discharge", "Total capacity - Discharge",
     "Average power - Discharge"}

\* the series read from a property of the collection
LibraryOptions ==
    {"Capacity retention", "Columbic efficiency", "Energy efficiency", "Voltaic Efficiency"}

\* the cycles an iteration over the collection visits: the visible ones
visible(cys, hid) == SelectSeq(cys, LAMBDA cy : cy.number \notin hid)

\* a series of the collection (from spec): the entry of a cycle that lacks a
\* side is undefined; the value is the ratio of the capacities, in percent
efficiencies(cys) ==
    [i \in DOMAIN cys |->
        IF cys[i].charge = None \/ cys[i].discharge = None THEN "NaN"
        ELSE (Capacity(cys[i].discharge) * 100) \div Capacity(cys[i].charge)]

\* get_data_series(option, cellcycling) without volume and area: the three
\* discharge series read an attribute of cycle.discharge of every visible cycle
get_data_series(option, cys, hid) ==
    IF option \notin Y_OPTIONS
    THEN [err |-> "TypeError", out |-> <<>>]
    ELSE IF option \in LibraryOptions
    THEN [err |-> "none", out |-> efficiencies(visible(cys, hid))]
    ELSE IF \E i \in DOMAIN visible(cys, hid) : visible(cys, hid)[i].discharge = None
    THEN [err |-> "AttributeError", out |-> <<>>]
    ELSE [err |-> "none",
          out |-> [i \in DOMAIN visible(cys, hid) |->
                     Capacity(visible(cys, hid)[i].discharge)]]

\* a series of the experiment is drawn
draw_series(option) ==
    /\ query' = [op |-> "get_data_series", arg |-> option,
                 err |-> get_data_series(option, cycles, hidden).err,
                 out |-> get_data_series(option, cycles, hidden).out]
    /\ UNCHANGED <<bytestreams, halfcycles, ordering, clean, manual_hide, cycles,
                   hidden, lastOp, err, printed, warned, input, skipped_files,
                   status, experiments, session>>

\* ------------------------------------------------------ the upload handler

\* the files of an upload that have no parsed half-cycle
skipped(bs) == Keys(bs) \ parse(bs)

\* "Add to an existing experiment": the files are added with += and the
\* skipped ones are added to the counter of the experiment
upload_add(bs) ==
    /\ skipped_files + Cardinality(skipped(bs)) <= MaxSkipped
    /\ iadd(bs)
    /\ skipped_files' = IF err' = "none"
                        THEN skipped_files + Cardinality(skipped(bs))
                        ELSE skipped_files
    /\ UNCHANGED <<containerVars, session>>

\* ------------------------------------------------------ the session state

\* the names of the containers of available_containers, in list order
ContainerNames == <<"X", "Y">>

\* st.session_state before any page has stored anything:
\*   stored      ProgramStatus._experiments, the stored Experiment objects
\*   view        the keys of ExperimentSelector.view (experiment names)
\*   comparison  the experiment_name of every series of Page2_ComparisonPlot
\*   forced      the "forced update executed" flag ("absent": key not set)
\*   rerun       force_update_once has asked for a rerun that has not run yet
\*   editor      the container selected in "Select the container to edit"
\*   received    the arguments of the hide_cycle calls every container received
NoSession ==
    [stored |-> <<>>, view |-> {}, comparison |-> <<>>, forced |-> "absent",
     rerun |-> FALSE, editor |-> ContainerNames[1],
     received |-> [c \in Range(ContainerNames) |-> <<>>]]

\* ProgramStatus.get_experiment_names
status_experiment_names == [i \in DOMAIN session.stored |-> status[session.stored[i]].name]

\* ProgramStatus.get_index_of: list.index, the first position of the name
get_index_of(name) ==
    Min({i \in DOMAIN status_experiment_names : status_experiment_names[i] = name}) - 1

\* ProgramStatus.append_experiment: "raise DuplicateName" builds the exception
\* without the name its constructor requires, which is a TypeError
append_experiment(id) ==
    /\ UNCHANGED <<status, experiments>>
    /\ IF \E i \in DOMAIN status_experiment_names :
             status_experiment_names[i] = status[id].name
       THEN /\ UNCHANGED session
            /\ query' = [op |-> "append_experiment", arg |-> status[id].name,
                         err |-> "TypeError", out |-> <<>>]
       ELSE /\ session' = [session EXCEPT !.stored = Append(@, id)]
            /\ query' = [op |-> "append_experiment", arg |-> status[id].name,
                         err |-> "none", out |-> <<>>]

\* ProgramStatus.remove_experiment(index)
status_remove_experiment(index) ==
    /\ UNCHANGED <<status, experiments>>
    /\ IF index >= Len(session.stored) \/ index < 0
       THEN /\ UNCHANGED session
            /\ query' = [op |-> "status_remove_experiment", arg |-> index,
                         err |-> "ValueError", out |-> <<>>]
       ELSE /\ session' = [session EXCEPT !.stored =
                              SubSeq(@, 1, index) \o SubSeq(@, index + 2, Len(@))]
            /\ query' = [op |-> "status_remove_experiment", arg |-> index,
                         err |-> "none", out |-> <<>>]

\* the Delete button of the file-manager page on the stored experiment id: the
\* experiment at get_index_of(its name) leaves the status, nothing else changes
delete_experiment(id) ==
    /\ \E i \in DOMAIN session.stored : session.stored[i] = id
    /\ UNCHANGED <<status, experiments>>
    /\ session' = [session EXCEPT !.stored =
                      SubSeq(@, 1, get_index_of(status[id].name))
                        \o SubSeq(@, get_index_of(status[id].name) + 2, Len(@))]
    /\ query' = [op |-> "delete", arg |-> status[id].name, err |-> "none", out |-> <<>>]

\* ExperimentSelector.set(name) from the cycles plotter: the name becomes a key
selector_set(name) ==
    /\ UNCHANGED <<status, experiments>>
    /\ session' = [session EXCEPT !.view = @ \cup {name}]
    /\ query' = [op |-> "selector_set", arg |-> name, err |-> "none", out |-> <<>>]

\* a series of the experiment is added to the comparison buffer
add_series(name) ==
    /\ Len(session.comparison) < MaxSeries
    /\ UNCHANGED <<status, experiments>>
    /\ session' = [session EXCEPT !.comparison = Append(@, name)]
    /\ query' = [op |-> "add_series", arg |-> name, err |-> "none", out |-> <<>>]

\* "for series in selected_series: if series.experiment_name == old: del ...":
\* the list iterator is at position i; a deletion moves the following series
\* one place down while the iterator still steps one place up
RECURSIVE DeleteWhileIterating(_, _, _)
DeleteWhileIterating(selected_series, i, old) ==
    IF i > Len(selected_series) THEN selected_series
    ELSE IF selected_series[i] = old
    THEN DeleteWhileIterating(SubSeq(selected_series, 1, i - 1)
                                \o SubSeq(selected_series, i + 1, Len(selected_series)),
                              i + 1, old)
    ELSE DeleteWhileIterating(selected_series, i + 1, old)

\* post_process_handler.remove_experiment_entries
remove_experiment_entries(old) ==
    /\ UNCHANGED <<status, experiments>>
    /\ session' = [session EXCEPT
                      !.view = @ \ {old},
                      !.comparison = DeleteWhileIterating(@, 1, old)]
    /\ query' = [op |-> "remove_experiment_entries", arg |-> old,
                 err |-> "none", out |-> <<>>]

\* remove_experiment_from_series_buffer of the cycles plotter: the buffer is
\* copied, cleared and filled again with the series of the other experiments
remove_experiment_from_series_buffer(name) ==
    /\ UNCHANGED <<status, experiments>>
    /\ session' = [session EXCEPT
                      !.comparison = SelectSeq(@, LAMBDA n : n # name)]
    /\ query' = [op |-> "remove_experiment_from_series_buffer", arg |-> name,
                 err |-> "none", out |-> <<>>]

\* a forced update that asks for a rerun whenever the flag is set and leaves
\* the flag set
force_update_always ==
    /\ UNCHANGED <<status, experiments, query>>
    /\ IF session.forced = "absent"
       THEN session' = [session EXCEPT !.forced = "False", !.rerun = TRUE]
       ELSE IF session.forced = "False"
       THEN session' = [session EXCEPT !.forced = "True", !.rerun = FALSE]
       ELSE session' = [session EXCEPT !.forced = "True", !.rerun = TRUE]

\* force_update_once, called at the end of a run of the cycles plotter
force_update_once ==
    /\ UNCHANGED <<status, experiments, query>>
    /\ IF session.forced = "absent"
       THEN session' = [session EXCEPT !.forced = "False", !.rerun = TRUE]
       ELSE IF session.forced = "False"
       THEN session' = [session EXCEPT !.forced = "True", !.rerun = FALSE]
       ELSE session' = [session EXCEPT !.forced = "False", !.rerun = TRUE]

\* the selectbox of the container editor
select_container(c) ==
    /\ UNCHANGED <<status, experiments>>
    /\ session' = [session EXCEPT !.editor = c]
    /\ query' = [op |-> "select_container", arg |-> c, err |-> "none", out |-> <<>>]

\* the selections of plot points: every point has the trace (named by its
\* container) and the x value it was drawn at
PointSelections ==
    UNION {[1..n -> [curve : Range(ContainerNames), x : 0..MaxCycles]] : n \in 1..MaxPoints}

\* the Hide cycles button: container_id is computed from the trace of every
\* point, the call goes to available_containers[container_idx], the container
\* of the editor
hide_selected_points(selected_points) ==
    LET container_idx == session.editor IN
    /\ Len(session.received[container_idx]) + Len(selected_points) <= MaxPoints
    /\ UNCHANGED <<status, experiments>>
    /\ session' = [session EXCEPT !.received[container_idx] =
                      @ \o [i \in DOMAIN selected_points |-> selected_points[i].x]]
    /\ query' = [op |-> "hide_selected_points", arg |-> selected_points,
                 err |-> "none", out |-> <<>>]

\* ------------------------------------------------ the legacy upload page

\* st.session_state["user_ordering_gui"]: a level for every file of the table
LevelInputs(suggested_ordering) ==
    [Range(Flatten(suggested_ordering)) -> 0..MaxCycleId]

max_level(suggested_ordering, levels) ==
    Max({levels[f] : f \in Range(Flatten(suggested_ordering))})

\* the levels below max_level that nobody selected
missing_levels(suggested_ordering, levels) ==
    {l \in 0..(max_level(suggested_ordering, levels) - 1) :
        \A f \in Range(Flatten(suggested_ordering)) : levels[f] # l}

\* custom_order: one slot for every level of range(max_level), filled in the
\* order of the table
custom_order(suggested_ordering, levels) ==
    [level \in 1..max_level(suggested_ordering, levels) |->
        SelectSeq(Flatten(suggested_ordering), LAMBDA f : levels[f] = level - 1)]

\* one run of the "Ordering selection" expander with the Build cycle button
\* pressed when it is shown
build_cycle(levels) ==
    /\ UNCHANGED <<bytestreams, halfcycles, ordering, clean, manual_hide, cycles,
                   hidden, lastOp, err, printed, warned, input, skipped_files,
                   status, experiments, session>>
    /\ IF missing_levels(suggest_ordering(halfcycles), levels) # {}
       THEN query' = [op |-> "build_cycle", arg |-> levels,
                      err |-> "GapInSequence", out |-> <<>>]
       ELSE query' = [op |-> "build_cycle", arg |-> levels, err |-> "none",
                      out |-> custom_order(suggest_ordering(halfcycles), levels)]

\* ------------------------------------------------------ the specifications

\* cycle numbers handed to hide_cycle (one is out of range for every list)
HideInputs == 0..MaxSlots

\* what a method of the Experiment leaves alone
others == <<skipped_files, status, experiments, query, session>>

IAdd == (\E src \in DataUploads : iadd(src)) /\ UNCHANGED others
RemoveFile == (\E f \in Files : remove_file(f)) /\ UNCHANGED others
AppendFile == (\E f \in Files : append_file(f, "data", TRUE)) /\ UNCHANGED others
HideCycle == (\E n \in HideInputs : hide_cycle(n)) /\ UNCHANGED others
UnhideAll == unhide_all_cycles /\ UNCHANGED others
SetClean == (\E value \in BOOLEAN : clean_setter(value)) /\ UNCHANGED others
SetOrdering == (\E o \in OrderingInputs : assign_ordering(o)) /\ UNCHANGED others
EditOrdering == (\E e \in EditorInputs(ordering) : edit_ordering(e)) /\ UNCHANGED others
EditOrderingLegacy ==
    (\E e \in EditorInputs(ordering) : edit_ordering_legacy(e)) /\ UNCHANGED others
\* an assignment of an ordering that passes the validation of the setter
SetValidOrdering ==
    (\E o \in {v \in OrderingInputs : validate_ordering(halfcycles, v) = "none"} :
        assign_ordering(o)) /\ UNCHANGED others
\* three files: a and c pair with d into cycles that survive cleaning
RebuildFiles == Files \ {"b"}
\* the merge of an experiment that holds one of these files
MergeOne ==
    (\E f \in RebuildFiles : iadd([g \in Files |-> IF g = f THEN "data" ELSE Absent]))
        /\ UNCHANGED others
\* the append of one of these files
AppendOne == (\E f \in RebuildFiles : append_file(f, "data", TRUE)) /\ UNCHANGED others
DrawSeries == \E option \in Y_OPTIONS : draw_series(option)
UploadAdd == \E bs \in Uploads : upload_add(bs)

\* no container has been made and nothing has been drawn
NoContainer ==
    /\ status = [id \in ExpIds |->
                   [name |-> DefaultName(id), ncycles |-> 0, manual_hide |-> <<>>]]
    /\ experiments = <<>>
    /\ query = NoQuery
    /\ session = NoSession

Init ==
    /\ \E bs \in DataUploads : construct(bs)
    /\ skipped_files = 0
    /\ NoContainer

\* the Experiment driven through its methods
Next ==
    \/ IAdd
    \/ RemoveFile
    \/ AppendFile
    \/ HideCycle
    \/ UnhideAll
    \/ SetClean

Spec == Init /\ [][Next]_vars

\* the ordering of an Experiment assigned and cleaned
NextOrdering ==
    \/ SetOrdering
    \/ SetClean
    \/ RemoveFile

SpecOrdering == Init /\ [][NextOrdering]_vars

\* the Experiment of at most three files edited in the Edit tab
EditUploads == {bs \in DataUploads : bs["d"] = Absent}

InitEdit ==
    /\ \E bs \in EditUploads : construct(bs)
    /\ skipped_files = 0
    /\ NoContainer

NextEdit ==
    \/ EditOrdering
    \/ EditOrderingLegacy

SpecEdit == InitEdit /\ [][NextEdit]_vars

\* every operation that rebuilds the cycles, on an Experiment of at most
\* three files
NextRebuild ==
    \/ SetValidOrdering
    \/ SetClean
    \/ RemoveFile
    \/ MergeOne
    \/ AppendOne
    \/ HideCycle
    \/ UnhideAll

InitRebuild ==
    /\ \E bs \in {u \in DataUploads : Keys(u) \subseteq RebuildFiles} : construct(bs)
    /\ skipped_files = 0
    /\ NoContainer

SpecRebuild == InitRebuild /\ [][NextRebuild]_vars

\* the series of an Experiment drawn by the plotter
NextSeries ==
    \/ DrawSeries
    \/ SetClean
    \/ HideCycle
    \/ UnhideAll
    \/ RemoveFile

SpecSeries == Init /\ [][NextSeries]_vars

\* "Create new experiment": the Experiment is built from the uploaded files
\* and the files without a half-cycle are counted
InitUpload ==
    /\ \E bs \in Uploads : construct(bs) /\ skipped_files = Cardinality(skipped(bs))
    /\ NoContainer

\* files uploaded to the experiment and removed from it
NextUpload ==
    \/ UploadAdd
    \/ RemoveFile

SpecUpload == InitUpload /\ [][NextUpload]_vars

\* the experiments of the status: built, with up to MaxCycles cycles each
InitContainer ==
    /\ construct([f \in Files |-> IF f = "a" THEN "data" ELSE Absent])
    /\ skipped_files = 0
    /\ status \in [ExpIds -> [name : ExpNames, ncycles : 0..MaxCycles,
                              manual_hide : {<<>>}]]
    /\ \A id \in ExpIds : status[id].name = DefaultName(id)
    /\ experiments = <<>>
    /\ query = NoQuery
    /\ session = [NoSession EXCEPT !.stored = <<1, 2, 3>>]

experimentVars ==
    <<bytestreams, halfcycles, ordering, clean, manual_hide, cycles, hidden, lastOp,
      err, printed, warned, input, skipped_files>>

AddExperiment == (\E id \in ExpIds : add_experiment(id)) /\ UNCHANGED <<experimentVars, session>>
RemoveExperiment ==
    (\E name \in ExpNames : remove_experiment(name)) /\ UNCHANGED <<experimentVars, session>>
Rename ==
    (\E id \in ExpIds : \E value \in ExpNames : rename(id, value))
        /\ UNCHANGED <<experimentVars, session>>
ContainerHide ==
    (\E g \in 0..(Cardinality(ExpIds) * MaxCycles) : container_hide_cycle(g))
        /\ UNCHANGED <<experimentVars, session>>
Plot == plot /\ UNCHANGED <<experimentVars, session>>

\* the members of one container added, removed and renamed
NextMembers ==
    \/ AddExperiment
    \/ RemoveExperiment
    \/ Rename

SpecMembers == InitContainer /\ [][NextMembers]_vars

\* the cycles of one container numbered, drawn and hidden
NextGlobal ==
    \/ AddExperiment
    \/ ContainerHide
    \/ Plot

SpecGlobal == InitContainer /\ [][NextGlobal]_vars

\* files appended to the Experiment with and without the parse
AppendAny ==
    (\E f \in RebuildFiles : \E bytestream \in Contents : \E autoparse \in BOOLEAN :
        append_file(f, bytestream, autoparse)) /\ UNCHANGED others

NextAppend ==
    \/ AppendAny
    \/ RemoveFile
    \/ SetClean
    \/ HideCycle

SpecAppend == InitRebuild /\ [][NextAppend]_vars

\* three Experiment objects with their default names, none of them stored
InitStatus ==
    /\ construct([f \in Files |-> IF f = "a" THEN "data" ELSE Absent])
    /\ skipped_files = 0
    /\ status = [id \in ExpIds |->
                   [name |-> DefaultName(id), ncycles |-> 1, manual_hide |-> <<>>]]
    /\ experiments = <<>>
    /\ query = NoQuery
    /\ session = NoSession

AppendExperiment ==
    (\E id \in ExpIds : append_experiment(id)) /\ UNCHANGED experimentVars
StatusRemove ==
    (\E index \in 0..Cardinality(ExpIds) : status_remove_experiment(index))
        /\ UNCHANGED experimentVars

\* the ProgramStatus driven through its methods and the name setter
NextStatus ==
    \/ AppendExperiment
    \/ StatusRemove
    \/ Rename

SpecStatus == InitStatus /\ [][NextStatus]_vars

\* "Create new experiment": a new Experiment object, one that no list holds
CreateExperiment ==
    (\E id \in ExpIds :
        /\ \A i \in DOMAIN session.stored : session.stored[i] # id
        /\ \A i \in DOMAIN experiments : experiments[i] # id
        /\ append_experiment(id)) /\ UNCHANGED experimentVars
DeleteExperiment ==
    (\E id \in ExpIds : delete_experiment(id)) /\ UNCHANGED experimentVars
\* the pages offer the stored experiments only
RenameStored ==
    (\E i \in DOMAIN session.stored : \E value \in ExpNames :
        /\ value # status[session.stored[i]].name
        /\ rename(session.stored[i], value)) /\ UNCHANGED <<experimentVars, session>>
AddStored ==
    (\E i \in DOMAIN session.stored : add_experiment(session.stored[i]))
        /\ UNCHANGED <<experimentVars, session>>
SelectorSet ==
    (\E i \in DOMAIN session.stored : selector_set(status[session.stored[i]].name))
        /\ UNCHANGED experimentVars

\* experiments created, renamed and deleted in the file manager while a
\* container and the cycle-plot selector refer to them
NextPages ==
    \/ CreateExperiment
    \/ DeleteExperiment
    \/ RenameStored
    \/ AddStored
    \/ SelectorSet

SpecPages == InitStatus /\ [][NextPages]_vars

\* the cycles plotter opened on a status that stores the three experiments
InitPlotter ==
    /\ construct([f \in Files |-> IF f = "a" THEN "data" ELSE Absent])
    /\ skipped_files = 0
    /\ status = [id \in ExpIds |->
                   [name |-> DefaultName(id), ncycles |-> 1, manual_hide |-> <<>>]]
    /\ experiments = <<>>
    /\ query = NoQuery
    /\ session = [NoSession EXCEPT !.stored = <<1, 2, 3>>]

\* a handler of the page runs when no rerun is pending
AddSeries ==
    /\ ~session.rerun
    /\ (\E name \in ExpNames : add_series(name)) /\ UNCHANGED experimentVars
SelectExperiment ==
    /\ ~session.rerun
    /\ (\E name \in ExpNames : selector_set(name)) /\ UNCHANGED experimentVars
RemoveEntries ==
    /\ ~session.rerun
    /\ (\E old \in ExpNames : remove_experiment_entries(old)) /\ UNCHANGED experimentVars
RemoveFromBuffer ==
    /\ ~session.rerun
    /\ (\E name \in ExpNames : remove_experiment_from_series_buffer(name))
    /\ UNCHANGED experimentVars
ForceUpdateOnce == force_update_once /\ UNCHANGED experimentVars

NextPlotter ==
    \/ AddSeries
    \/ SelectExperiment
    \/ RemoveEntries
    \/ RemoveFromBuffer
    \/ ForceUpdateOnce

SpecPlotter == InitPlotter /\ [][NextPlotter]_vars

\* the script of the page always runs to its last statement
SpecPlotterFair == SpecPlotter /\ WF_vars(ForceUpdateOnce)

SelectContainer ==
    (\E c \in Range(ContainerNames) : select_container(c)) /\ UNCHANGED experimentVars
HideSelectedPoints ==
    (\E selected_points \in PointSelections : hide_selected_points(selected_points))
        /\ UNCHANGED experimentVars

\* the cell-cycling plotter with two containers drawn
NextHide ==
    \/ SelectContainer
    \/ HideSelectedPoints

SpecHide == InitPlotter /\ [][NextHide]_vars

\* the legacy upload page: the levels are typed and Build cycle is pressed
BuildCycle == \E levels \in LevelInputs(suggest_ordering(halfcycles)) : build_cycle(levels)

NextBuild == BuildCycle

SpecBuild == Init /\ [][NextBuild]_vars

\* -------------------------------------------------------------- the claims

EditOps == {"edit", "edit_legacy"}
ValidationErrors == {"MissingFile", "UnknownFile"}

\* C1 (as claimed): in every reachable state every filename of the half-cycle
\* registry appears exactly once across the stored ordering.
C1_EveryFileOnce == \A f \in halfcycles : Count(Flatten(ordering), f) = 1

C3_Original == (lastOp = "ordering" /\ input.unknown) => err = "UnknownFile"

\* C3 (amended): an ordering that lists a filename which is not registered is
\* never accepted; the assignment fails with the unknown-file error when no
\* registered file is missing from it, and with the missing-file error (the
\* first check) otherwise.
C3_UnknownNeverAccepted ==
    [][(lastOp' = "ordering" /\ input'.unknown)
         => /\ ordering' = ordering
            /\ err' = IF input'.missing = {} THEN "UnknownFile" ELSE "MissingFile"]_vars

\* an assignment that lists every registered file and an unknown one
C3_Witness ==
    /\ lastOp = "ordering"
    /\ input.unknown
    /\ input.missing = {}
    /\ err = "UnknownFile"

\* C4 (as claimed): an edit that leaves a cycle id below the largest one
\* without any file is rejected with a warning that names exactly the missing
\* ids, and no ordering is assigned.
C4_GapReported ==
    [][(lastOp' \in EditOps /\ input'.gaps # {})
         => /\ err' = "GapInSequence"
            /\ Range(warned') = input'.gaps
            /\ ordering' = ordering]_vars

\* C5 (as claimed): an edit that gives two files the same cycle and the same
\* half-cycle position is rejected with the duplicate-position warning.
C5_Original == (lastOp = "edit" /\ input.collide) => err = "DuplicatePosition"

\* C5 (amended): an edit that gives two files the same (cycle, position) pair
\* never assigns an ordering; it is rejected with the duplicate-position
\* warning when no cycle id is left empty, and by the gap check, which runs
\* first, otherwise.
C5_CollisionRejected ==
    [][(lastOp' \in EditOps /\ input'.collide)
         => /\ ordering' = ordering
            /\ cycles' = cycles
            /\ input'.gaps = {} => err' = "DuplicatePosition"
            /\ input'.gaps # {} => err' \in {"GapInSequence", "TypeError"}]_vars

\* two files on the same pair and no empty cycle id
C5_Witness ==
    /\ lastOp \in EditOps
    /\ input.collide
    /\ input.gaps = {}
    /\ err = "DuplicatePosition"

\* C6 (as claimed): an operation that fails leaves the registry, the ordering,
\* the clean flag, the manual-hide list and the cycle collection as they were.
C6_AllOrNothing ==
    [][err' # "none"
         => UNCHANGED <<bytestreams, halfcycles, ordering, clean, manual_hide,
                        cycles, hidden>>]_vars

\* C7: an ordering assignment that fails validation leaves the stored
\* ordering, the cycle list and the cell-cycling collection unchanged.
C7_ValidationBeforeRebuild ==
    [][(lastOp' = "ordering" /\ err' \in ValidationErrors)
         => UNCHANGED <<ordering, cycles, hidden>>]_vars

\* a rejected assignment on an experiment that has cycles
C7_Witness ==
    /\ lastOp = "ordering"
    /\ err \in ValidationErrors
    /\ cycles # <<>>

\* C8: with clean set, the numbers of the cycles are 0..k-1 in order.
C8_Renumbered == clean => \A i \in DOMAIN cycles : cycles[i].number = i - 1

\* a clean build that dropped the first slot and kept a later one
C8_Witness ==
    /\ clean
    /\ err = "none"
    /\ Len(cycles) >= 1
    /\ Len(cycles) < Len(ordering)
    /\ ~Keep(Assemble(ordering)[1])

\* a slot survives cleaning: it has a charge and a discharge file and the
\* discharge capacity is below the charge capacity
Survives(slot) ==
    \E f, g \in Range(slot) :
        /\ Kind(f) = "charge"
        /\ Kind(g) = "discharge"
        /\ Capacity(g) < Capacity(f)

KeptSlots == {i \in DOMAIN ordering : ~clean \/ Survives(ordering[i])}

RebuildOps == {"ordering", "clean", "append_file", "remove_file", "iadd"}

Rebuilt == err \notin ValidationErrors \cup {"ValueError"}

\* C12: hiding a number outside 0..N-1 raises nothing and changes neither the
\* cycles nor their visibility, and with such a number in the manual-hide
\* list every rebuild that the build itself allows still succeeds.
C12_HideOutOfRangeIgnored ==
    [][(/\ get_cycles(halfcycles', ordering', clean').ok
        /\ Rebuilt'
        /\ \E i \in DOMAIN manual_hide' :
              manual_hide'[i] \notin 0..(Len(get_cycles(halfcycles', ordering', clean').cycles) - 1))
         => /\ err' = "none"
            /\ (/\ lastOp' = "hide_cycle"
                /\ Len(manual_hide') = Len(manual_hide) + 1
                /\ manual_hide'[Len(manual_hide')] \notin 0..(Len(cycles) - 1))
                  => (hidden' = hidden /\ cycles' = cycles)]_vars

\* a number hidden after a clean toggle left a shorter list of cycles
C12_Witness ==
    /\ lastOp = "hide_cycle"
    /\ err = "none"
    /\ clean
    /\ cycles # <<>>
    /\ hidden = {}
    /\ manual_hide # <<>>

\* the visibility before the last hide_cycle: that of the hide list without
\* its last entry
PreHide == Hide(cycles, SubSeq(manual_hide, 1, Len(manual_hide) - 1))

\* C13 (as claimed): a hide followed by an unhide-all restores the visibility
\* the cycles had before the hide, whatever it was.
C13_Original ==
    [][(lastOp = "hide_cycle" /\ err = "none"
        /\ lastOp' = "unhide_all_cycles" /\ err' = "none")
         => hidden' = PreHide]_vars

\* C13 (amended): a hide followed by an unhide-all leaves the cycles as they
\* were and all of them visible; this is the visibility before the hide when
\* no cycle was hidden then.
C13_RoundTrip ==
    [][(lastOp = "hide_cycle" /\ err = "none"
        /\ lastOp' = "unhide_all_cycles" /\ err' = "none")
         => /\ hidden' = {}
            /\ cycles' = cycles
            /\ PreHide = {} => hidden' = PreHide]_vars

\* an unhide-all on an experiment that has cycles
C13_Witness ==
    /\ lastOp = "unhide_all_cycles"
    /\ err = "none"
    /\ manual_hide = <<>>
    /\ hidden = {}
    /\ Len(cycles) = 2

\* max_cycle_number of a member: the last number it shows (-1 when it shows
\* none, so that it takes no room)
MaxNumber(e) == Max({-1} \cup Range(visible_numbers(e)))

\* offset(i) of the container: offset(i-1) + max_cycle_number(member i-1) + 1
Offset(i) ==
    LET off[k \in 1..i] ==
            IF k = 1 THEN 0 ELSE off[k - 1] + MaxNumber(status[experiments[k - 1]]) + 1
    IN  off[i]

\* the global numbers of the container: the local numbers plus the offsets
GlobalNumbers ==
    Flatten([i \in DOMAIN experiments |->
               [k \in DOMAIN visible_numbers(status[experiments[i]]) |->
                  visible_numbers(status[experiments[i]])[k] + Offset(i)]])

\* C14 (as claimed): for any container the plot shows the cycles of the
\* members at their local number plus the offset of the member: strictly
\* increasing numbers, one for every cycle shown.
C14_OffsetsContiguous ==
    query.op = "plot"
        => /\ query.err = "none"
           /\ query.out = GlobalNumbers
           /\ \A j, k \in DOMAIN query.out : j < k => query.out[j] < query.out[k]

\* C15 (as claimed): hiding the global index n + offset(i) of a local cycle n
\* that member i shows appends n to the manual-hide list of member i and
\* changes no other member.
C15_GlobalIndexInverted ==
    [][query'.op = "hide_cycle"
         => \A i \in DOMAIN experiments :
              \A n \in Range(visible_numbers(status[experiments[i]])) :
                 query'.arg = n + Offset(i)
                   => status' = [status EXCEPT ![experiments[i]].manual_hide =
                                                   Append(@, n)]]_vars

\* C16 (as claimed): adding a member whose name is already borne by a member
\* of the container fails and leaves the member list unchanged.
C16_DuplicateMemberRejected ==
    [][(/\ query'.op = "add_experiment"
        /\ \E i \in DOMAIN experiments : status[experiments[i]].name = query'.arg)
         => (query'.err # "none" /\ experiments' = experiments)]_vars

\* the list without its i-th element
RemoveAt(seq, i) == [k \in 1..(Len(seq) - 1) |-> IF k < i THEN seq[k] ELSE seq[k + 1]]

\* C17: removing a name no member bears fails and leaves the member list
\* unchanged; removing a name that is present deletes one member of that name
\* and keeps the others in their order.
C17_RemoveMember ==
    [][query'.op = "remove_experiment"
         => IF \A i \in DOMAIN experiments : status[experiments[i]].name # query'.arg
            THEN query'.err = "ValueError" /\ experiments' = experiments
            ELSE /\ query'.err = "none"
                 /\ \E i \in DOMAIN experiments :
                       /\ status[experiments[i]].name = query'.arg
                       /\ experiments' = RemoveAt(experiments, i)]_vars

\* a removal that left two members, neither of the removed name
C17_Witness ==
    /\ query.op = "remove_experiment"
    /\ query.err = "none"
    /\ Len(experiments) = 2
    /\ \A i \in DOMAIN experiments : status[experiments[i]].name # query.arg

\* C18 (as claimed): a series drawn over a collection that has a visible
\* cycle without a charge or a discharge half-cycle never raises, and has one
\* entry for every visible cycle.
C18_SeriesNeverRaises ==
    query.op = "get_data_series"
        => /\ query.err = "none"
           /\ Len(query.out) = Cardinality({i \in DOMAIN cycles : cycles[i].number \notin hidden})

\* two files of the slot are of the same kind
TwoOfAKind(slot) ==
    \E j, k \in DOMAIN slot : j # k /\ Kind(slot[j]) = Kind(slot[k])

C20_SkippedCounted == skipped_files = Cardinality(Keys(bytestreams) \ halfcycles)

\* C21 (as claimed): after every append_experiment, rename and
\* remove_experiment no two stored experiments share a name, and the append of
\* an experiment whose name is already stored fails with DuplicateName and
\* leaves the list as it was.
C21_StoredNamesUnique ==
    [][/\ NoDuplicates(status_experiment_names')
       /\ (query'.op = "append_experiment"
             /\ \E i \in DOMAIN status_experiment_names :
                   status_experiment_names[i] = query'.arg)
            => (query'.err = "DuplicateName" /\ session'.stored = session.stored)]_vars

\* C22 (as claimed): in every reachable state the stored cycle list and the
\* hidden set of the collection are the ones a fresh build from the current
\* raw files, ordering, clean flag and manual-hide list produces.
C22_DerivedStateFollows ==
    LET r == get_cycles(parse(bytestreams), ordering, clean)
    IN  /\ r.ok
        /\ cycles = r.cycles
        /\ hidden = Hide(r.cycles, manual_hide)

\* every cycle id up to the largest one is selected by a row
NoEmptyCycle(entries) ==
    \A c \in 0..Max({entries[f][1] : f \in DOMAIN entries}) :
        \E f \in DOMAIN entries : entries[f][1] = c

\* no two rows select the same (cycle, halfcycle) pair
NoRepeatedPair(entries) ==
    \A f, g \in DOMAIN entries : f # g => entries[f] # entries[g]

\* what the editor makes of the table
Inverted(entries) == new_ordering_of(cycle_based_buffer(Flatten(ordering), entries).buffer)

\* C23: for every table the editor can show with no empty cycle id and no
\* repeated pair, the inversion has max_cycle + 1 slots, holds every file
\* exactly once, in the slot of its cycle id, and every slot is sorted by
\* ascending halfcycle position (holes between positions are skipped).
C23_InversionPlacesEveryFile ==
    (EditorShown /\ ordering # <<>>) =>
        \A entries \in EditorInputs(ordering) :
            (NoEmptyCycle(entries) /\ NoRepeatedPair(entries)) =>
                /\ Len(Inverted(entries)) = Max({entries[f][1] : f \in DOMAIN entries}) + 1
                /\ Range(Flatten(Inverted(entries))) = DOMAIN entries
                /\ \A f \in DOMAIN entries :
                      /\ Count(Flatten(Inverted(entries)), f) = 1
                      /\ f \in Range(Inverted(entries)[entries[f][1] + 1])
                /\ \A c \in DOMAIN Inverted(entries) :
                      \A j, k \in DOMAIN Inverted(entries)[c] :
                          j < k => entries[Inverted(entries)[c][j]][2]
                                     < entries[Inverted(entries)[c][k]][2]

\* the editor has stored an inversion: three files, one of them moved to a
\* cycle of its own and the other two sharing a slot against their timestamps
C23_Witness ==
    /\ lastOp \in EditOps
    /\ input.gaps = {} /\ ~input.collide
    /\ Len(ordering) = 2
    /\ \E i \in DOMAIN ordering :
          /\ Len(ordering[i]) = 2
          /\ Timestamp(ordering[i][1]) > Timestamp(ordering[i][2])

\* the x values of the selected points drawn on the trace of container c
PointsOf(selected_points, c) ==
    LET onTrace == SelectSeq(selected_points, LAMBDA pt : pt.curve = c)
    IN  [i \in DOMAIN onTrace |-> onTrace[i].x]

\* C24 (as claimed): the Hide cycles button hands every selected point to
\* hide_cycle of the container its trace is named after, and to no other one.
C24_HideGoesToTraceContainer ==
    [][session'.received # session.received
         => \A c \in Range(ContainerNames) :
               session'.received[c] = session.received[c] \o PointsOf(query'.arg, c)]_vars

\* C25 (as claimed): after remove_experiment_entries of a name no series of the
\* comparison buffer and no view of the selector refers to it, and the other
\* series keep their order.
C25_EntriesRemoved ==
    [][query'.op = "remove_experiment_entries"
         => /\ \A i \in DOMAIN session'.comparison : session'.comparison[i] # query'.arg
            /\ query'.arg \notin session'.view
            /\ session'.comparison =
                 SelectSeq(session.comparison, LAMBDA n : n # query'.arg)]_vars

\* C26: force_update_once asks for a rerun on its first invocation in a
\* session, the invocation that follows a rerun returns (never two reruns in a
\* row), and every rerun is followed by an invocation that returns.
C26_ForcedUpdateTerminates ==
    /\ [][session'.forced # session.forced
            => /\ (session.forced = "absent" => session'.rerun)
               /\ (session.rerun => ~session'.rerun)]_vars
    /\ (session.rerun ~> ~session.rerun)

\* a later page run has gone through its rerun and returned: the flag is set
\* again while series added in between are in the buffer
C26_Witness ==
    /\ session.forced = "True"
    /\ ~session.rerun
    /\ Len(session.comparison) = MaxSeries

\* C27 (as claimed): a build with gap-free levels yields a custom ordering that
\* holds every half-cycle of the suggested ordering exactly once, in the slot
\* of the level selected for it, the highest level included.
C27_BuildKeepsEveryHalfcycle ==
    (query.op = "build_cycle" /\ query.err = "none")
        => \A f \in DOMAIN query.arg :
              /\ Count(Flatten(query.out), f) = 1
              /\ query.arg[f] + 1 \in DOMAIN query.out
              /\ f \in Range(query.out[query.arg[f] + 1])

\* C28 (as claimed): a hide through the container leaves every cycle that is
\* still shown at the global index it had before.
C28_HideKeepsIndices ==
    [][(query'.op = "hide_cycle" /\ query'.err = "none")
         => \A i \in DOMAIN experiments :
              \A n \in Range(visible_numbers(status'[experiments[i]])) :
                 n + (Offset(i))' = n + Offset(i)]_vars

\* C29 (as claimed): the plot of a container and its hide_cycle never fail on
\* the maximum cycle number of a member.
C29_MaxNumberDefined ==
    query.op \in {"plot", "hide_cycle"} => query.err # "IndexError"

\* C30 (as claimed): after every creation, rename and deletion every name a
\* container lists and every name keyed in the cycle-plot selector is the name
\* of a stored experiment.
C30_NamesResolve ==
    /\ \A i \in DOMAIN experiments :
          \E j \in DOMAIN status_experiment_names :
              status_experiment_names[j] = status[experiments[i]].name
    /\ \A name \in session.view :
          \E j \in DOMAIN status_experiment_names : status_experiment_names[j] = name

====
